---- MODULE Spec2Model ----
(***************************************************************************)
(* Incremental collection resolution of the content build engine:          *)
(* load / resolve / watch / build.                                         *)
(*                                                                         *)
(* One resolution pass is an async function.  Its positions are the        *)
(* awaits of the source: every collection branch first awaits the glob,    *)
(* then (synchronously after the glob) asks the per-path cache for every   *)
(* matched path, then awaits the creation and validation of the files that *)
(* were not taken from the cache, and stores its list.  When all branches  *)
(* have settled the pass reports, aggregates, calls the hooks and emits.   *)
(* The watcher's 'all' listener is an async function whose promise nobody  *)
(* awaits, so a listener starts whenever an event is delivered.            *)
(***************************************************************************)
EXTENDS Integers, Sequences, FiniteSets, TLC

\* ------------------------------------------------------------------ bounds
MaxEvents == 2      \* file-system events delivered in one behaviour
MaxRecs == 2        \* records of an array-shaped file
MaxValidations == 2 \* markdown fields validated in one behaviour

\* ------------------------------------------------------- the configuration
Collections == {"A", "B"}
Paths == {"p1", "p2"}
\* glob-match order
PathOrder == <<"p1", "p2">>
CfgPath == "cfg"
None == "none"

\* collections[name].pattern, as the set of content paths it matches
Pattern(c) == IF c = "A" THEN {"p1", "p2"} ELSE {"p2"}

\* micromatch.contains(changed, pattern)
Contains(changed, c) == changed \in Pattern(c)

\* configImports.includes(filename)
ConfigImports == {CfgPath}

\* the resolved configuration: strict flag and the collections declared single
Configs == [strict : BOOLEAN, single : {{"B"}}]

\* ------------------------------------------------------------ file contents
\* raw records: 0 validates to a falsy value, 1 to a truthy one, 2 is invalid
Raw == {0, 1, 2}
Absent == [isArr |-> FALSE, recs |-> <<>>, there |-> FALSE]
Single(r) == [isArr |-> FALSE, recs |-> <<r>>, there |-> TRUE]
Many(rs) == [isArr |-> TRUE, recs |-> rs, there |-> TRUE]

SeqsUpTo(S, n) == UNION {[1..k -> S] : k \in 0..n}

Contents == {Single(r) : r \in Raw} \cup {Many(rs) : rs \in SeqsUpTo(Raw, MaxRecs)}

\* ---------------------------------------------------------------- values
\* a validated value, or undefined (a map callback that returns nothing)
Some(v) == [def |-> TRUE, v |-> v]
Undefined == [def |-> FALSE, v |-> 0]
\* Boolean(x) of JavaScript
Truthy(x) == x.def /\ x.v # 0

\* schema.safeParseAsync(item, {path, meta}): the collection's schema.
\* Record 2 is rejected; schema A reports one issue, at the record itself,
\* schema B two issues, at fields 1 and 2.  Issue paths start with `path`.
Validate(c, item, path) ==
  IF item < 2
  THEN [success |-> TRUE, data |-> IF c = "A" THEN item ELSE 10 * item, issues |-> <<>>]
  ELSE [success |-> FALSE, data |-> 0,
        issues |-> IF c = "A" THEN <<path>> ELSE <<path \o <<1>>, path \o <<2>>>>]

\* ------------------------------------------------------------------- state
VARIABLES
  fs,        \* the content root: path -> content (or Absent)
  config,    \* the resolved configuration the watcher was started with
  resolved,  \* const resolved = new Map<string, VeliteFile[]>()
  loaded,    \* the per-path File Representation cache behind VeliteFile.get
  cache,     \* config.cache, as the set of paths that occur as a value in it
  passes,    \* the resolve() calls in flight, in the order they were started
  watching,  \* a chokidar watcher is delivering events to the listener
  rejected,  \* a build() promise was rejected
  output,    \* what outputData wrote last
  last,      \* the outcome of the resolve() call that settled last
  events,    \* events delivered so far
  event,     \* the arguments of the listener's last call
  dirty      \* history: an event for the collection came after its list was stored

vars == <<fs, config, resolved, loaded, cache, passes, watching, rejected, output,
          last, events, event, dirty>>

\* map.set(key, value) on a Map modelled as a function on its keys
MapSet(m, k, v) == [x \in DOMAIN m \cup {k} |-> IF x = k THEN v ELSE m[x]]

\* ----------------------------------------------------------------- load
\* The identity of a File Representation: the resolve() call (numbered by the
\* event that started it, 0 for the first build) and the collection branch that
\* constructed it.  A branch constructs at most one representation per path.
NoId == <<>>

\* a File Representation whose creation is still awaited
Pending(path) ==
  [id |-> NoId, path |-> path, isArr |-> FALSE, result |-> <<>>, messages |-> <<>>]

\* the cache is asked for the changed path too
ReuseAny(changed, path) == changed # None /\ path \in DOMAIN loaded

\* load, the synchronous head: take the cached representation?
Reuse(changed, path) == changed # None /\ path # changed /\ path \in DOMAIN loaded

\* records -> list, parsed by the schema one by one
Parsed(c, content) ==
  [k \in 1..Len(content.recs) |->
     LET r == Validate(c, content.recs[k], IF content.isArr THEN <<k - 1>> ELSE <<>>)
     IN IF r.success THEN Some(r.data) ELSE Undefined]

RECURSIVE Messages(_, _, _)
\* result.error.issues.forEach(issue => meta.message(issue.message, {source}))
Messages(c, content, k) ==
  IF k > Len(content.recs) THEN <<>>
  ELSE Validate(c, content.recs[k], IF content.isArr THEN <<k - 1>> ELSE <<>>).issues
       \o Messages(c, content, k + 1)

\* meta.result = isArr ? parsed : parsed[0], kept as the sequence flatMap sees
Result(isArr, parsed) == IF isArr THEN parsed ELSE <<parsed[1]>>

\* load, after VeliteFile.create: validate every record, set the result
LoadFile(c, path, content, n) ==
  [id |-> <<n, c>>, path |-> path, isArr |-> content.isArr,
   result |-> Result(content.isArr, Parsed(c, content)),
   messages |-> Messages(c, content, 1)]

\* --------------------------------------------------------------- resolve
\* the match test of the skip, inverted
SkipInverted(changed, c) == changed # None /\ Contains(changed, c) /\ c \in DOMAIN resolved

\* skip collection if changed file not match
Skip(changed, c) == changed # None /\ ~Contains(changed, c) /\ c \in DOMAIN resolved

RECURSIVE SelectPaths(_, _)
SelectPaths(order, c) ==
  IF order = <<>> THEN <<>>
  ELSE (IF Head(order) \in Pattern(c) /\ fs[Head(order)].there
        THEN <<Head(order)>> ELSE <<>>) \o SelectPaths(Tail(order), c)

\* glob(pattern, {cwd: root, absolute, onlyFiles, ignore})
Glob(c) == SelectPaths(PathOrder, c)

\* a collection branch of resolve, up to its first await
Branch(changed, c) ==
  IF Skip(changed, c)
  THEN [st |-> "done", skipped |-> TRUE, files |-> resolved[c], trusted |-> ~dirty[c],
        globs |-> 0, loads |-> 0, sets |-> 0]
  ELSE [st |-> "glob", skipped |-> FALSE, files |-> <<>>, trusted |-> TRUE,
        globs |-> 0, loads |-> 0, sets |-> 0]

\* resolve(config, changed), up to the first await of every collection branch
\* isBuild: the call is build()'s, which starts the watcher afterwards if
\* options.watch (wat) is set
StartPass(n, changed, cfg, isBuild, wat) ==
  [n |-> n, changed |-> changed, build |-> isBuild, watch |-> wat, strict |-> cfg.strict,
   single |-> cfg.single, br |-> [c \in Collections |-> Branch(changed, c)]]

\* the slots of a branch after its glob: cached representations and pending ones
Slots(changed, paths) ==
  [k \in 1..Len(paths) |->
     IF Reuse(changed, paths[k]) THEN loaded[paths[k]] ELSE Pending(paths[k])]

PendingIn(slots) == {k \in 1..Len(slots) : slots[k].id = NoId}

\* a pending file that was removed after the glob cannot be read
Unreadable(slots) == \E k \in PendingIn(slots) : ~fs[slots[k].path].there

\* a load puts its records after those of the representation the cache holds
LoadedAppending(n, c, slots) ==
  [k \in 1..Len(slots) |->
     IF slots[k].id # NoId THEN slots[k]
     ELSE LET f == LoadFile(c, slots[k].path, fs[slots[k].path], n)
          IN IF slots[k].path \in DOMAIN loaded
             THEN [f EXCEPT !.result = loaded[slots[k].path].result \o @]
             ELSE f]

\* Promise.all(paths.map(path => load(config, path, schema, changed)))
Loaded(n, c, slots) ==
  [k \in 1..Len(slots) |->
     IF slots[k].id # NoId THEN slots[k]
     ELSE LoadFile(c, slots[k].path, fs[slots[k].path], n)]

\* the paths whose representation the branch constructs
Created(slots) == {slots[k].path : k \in PendingIn(slots)}

\* the per-path cache, after the representations this branch created are registered
Register(slots, files) ==
  [p \in DOMAIN loaded \cup Created(slots) |->
     IF \E k \in PendingIn(slots) : slots[k].path = p
     THEN files[CHOOSE k \in PendingIn(slots) : slots[k].path = p]
     ELSE loaded[p]]

\* ---------------------------------------------------- aggregation, lines 88-108
RECURSIVE Flatten(_)
\* files.flatMap(file => file.result)
Flatten(files) ==
  IF files = <<>> THEN <<>> ELSE Head(files).result \o Flatten(Tail(files))

\* files.flatMap(file => file.result).filter(Boolean)
Data(files) == SelectSeq(Flatten(files), Truthy)

\* reporter(allFiles, {quiet: true}).length > 0
Report(p) == \E c \in Collections : \E k \in 1..Len(p.br[c].files) :
               p.br[c].files[k].messages # <<>>

\* the aggregate value of a collection: data[0] if single, data otherwise
Aggregate(p, c) ==
  IF c \in p.single
  THEN (IF Data(p.br[c].files) = <<>> THEN <<>> ELSE <<Head(Data(p.br[c].files))>>)
  ELSE Data(p.br[c].files)

\* the length of data is not looked at
NoDataNever(p) == FALSE

\* if (data.length === 0) throw new Error(`no data resolved for '${name}'`)
NoData(p) == \E c \in p.single : Data(p.br[c].files) = <<>>

PrepareOutcomes == {"absent", "true", "false", "undefined", "throws"}
CompleteOutcomes == {"absent", "ok", "throws"}

\* the hook's value is taken as it is: undefined counts as a veto
ShouldOutputTruthy(prep) == prep \notin {"false", "undefined"}

\* shouldOutput = (await prepare(result)) ?? true
ShouldOutput(prep) == prep # "false"

\* what a hook throws is swallowed
FailureHooksCaught(p, prep, comp) ==
  IF \E c \in Collections : p.br[c].st = "failed" THEN "read"
  ELSE IF Report(p) /\ p.strict THEN "strict"
  ELSE IF NoData(p) THEN "nodata"
  ELSE None

\* strict is not looked at
FailureLax(p, prep, comp) ==
  IF \E c \in Collections : p.br[c].st = "failed" THEN "read"
  ELSE IF NoData(p) THEN "nodata"
  ELSE IF prep = "throws" THEN "prepare"
  ELSE IF comp = "throws" THEN "complete"
  ELSE None

\* the error that ends the pass, or None
Failure(p, prep, comp) ==
  IF \E c \in Collections : p.br[c].st = "failed" THEN "read"
  ELSE IF Report(p) /\ p.strict THEN "strict"
  ELSE IF NoData(p) THEN "nodata"
  ELSE IF prep = "throws" THEN "prepare"
  ELSE IF comp = "throws" THEN "complete"
  ELSE None

\* what the pass did from line 88 on, given what the hooks do
Outcome(p, prep, comp) ==
  LET err == Failure(p, prep, comp)
      reached == err \in {None, "prepare", "complete"}
      passed == err \in {None, "complete"}
  IN [ran |-> TRUE, pass |-> p, err |-> err,
      warned |-> err # "read" /\ Report(p),
      prep |-> prep, comp |-> comp,
      prepared |-> reached /\ prep # "absent",
      data |-> passed /\ ShouldOutput(prep),
      assets |-> passed,
      completed |-> passed /\ comp # "absent",
      result |-> IF reached THEN [c \in Collections |-> Aggregate(p, c)]
                 ELSE [c \in Collections |-> <<>>]]

\* no resolve() call has settled yet
NoPass ==
  [ran |-> FALSE,
   pass |-> [n |-> 0, changed |-> None, build |-> FALSE, watch |-> FALSE, strict |-> FALSE, single |-> {},
             br |-> [c \in Collections |->
                       [st |-> "done", skipped |-> FALSE, files |-> <<>>, trusted |-> TRUE,
                        globs |-> 0, loads |-> 0, sets |-> 0]]],
   err |-> None, warned |-> FALSE, prep |-> "absent", comp |-> "absent",
   prepared |-> FALSE, data |-> FALSE, assets |-> FALSE, completed |-> FALSE,
   result |-> [c \in Collections |-> <<>>]]

\* ------------------------------------------------------------ the actions
\* await glob(...), then paths.map(path => load(...)) up to each load's first await
GlobStep(i, c) ==
  /\ passes[i].br[c].st = "glob"
  /\ passes' = [passes EXCEPT ![i].br[c] =
                  [@ EXCEPT !.st = "load", !.files = Slots(passes[i].changed, Glob(c)),
                            !.globs = @ + 1]]
  /\ UNCHANGED <<fs, config, resolved, loaded, cache, watching, rejected, output, last,
                 events, event, dirty>>

\* the awaited loads settle; resolved.set(name, files) unless one of them failed
LoadStep(i, c) ==
  LET slots == passes[i].br[c].files
      files == Loaded(passes[i].n, c, slots)
  IN /\ passes[i].br[c].st = "load"
     /\ IF Unreadable(slots)
        THEN /\ passes' = [passes EXCEPT ![i].br[c].st = "failed"]
             /\ UNCHANGED <<resolved, loaded, cache, dirty>>
        ELSE /\ passes' = [passes EXCEPT ![i].br[c] =
                             [@ EXCEPT !.st = "done", !.files = files,
                                       !.loads = @ + Cardinality(PendingIn(slots)),
                                       !.sets = @ + 1]]
             /\ resolved' = MapSet(resolved, c, files)
             /\ loaded' = Register(slots, files)
             /\ cache' = cache \cup Created(slots)
             /\ dirty' = [dirty EXCEPT ![c] = FALSE]
     /\ UNCHANGED <<fs, config, watching, rejected, output, last, events, event>>

\* no try/catch around the rebuild
CaughtNever(p) == FALSE

\* The rejection of resolve() is caught by the listener's try/catch around
\* `await resolve(config, filename)`.  Nothing in build() catches it, and the
\* listener returns build()'s promise without awaiting it inside the try.
Caught(p) == ~p.build

Remove(seq, i) == [k \in 1..(Len(seq) - 1) |-> IF k < i THEN seq[k] ELSE seq[k + 1]]

Settled(p) == \A c \in Collections : p.br[c].st \in {"done", "failed"}

\* lines 88-137 of resolve, and what its caller does with the outcome:
\* the listener's catch for a scoped pass, build() for a full one
Finish(i, prep, comp) ==
  LET o == Outcome(passes[i], prep, comp)
      early == Failure(passes[i], "absent", "absent") # None
  IN /\ Settled(passes[i])
     \* a hook that is never reached has no outcome
     /\ early => prep = "absent" /\ comp = "absent"
     /\ prep = "throws" => comp = "absent"
     /\ last' = o
     /\ output' = IF o.data THEN o.result ELSE output
     /\ passes' = Remove(passes, i)
     /\ watching' = IF passes[i].build /\ passes[i].watch /\ o.err = None THEN TRUE
                   ELSE watching
     /\ rejected' = (rejected \/ (o.err # None /\ ~Caught(passes[i])))
     /\ UNCHANGED <<fs, config, resolved, loaded, cache, events, event, dirty>>

\* await resolve(config, filename), called by the listener
Rebuild(n, filename) == StartPass(n, filename, config, FALSE, FALSE)

\* the restart passes the changed file name on to resolve
RestartScoped(n, cfg) == StartPass(n, CfgPath, cfg, TRUE, TRUE)

\* build({config: config.configPath, clean: false, watch: true}): the
\* configuration is resolved again, then resolve(config) without a changed path
Restart(n, cfg) == StartPass(n, None, cfg, TRUE, TRUE)

\* watcher.close() before the restart
Closes == TRUE

\* what a watcher event can leave at a path
EventContents == {Single(1), Single(2), Absent}

\* the 'all' listener, for a content file: drop its cache entries, rebuild
FileEvent(path, content) ==
  /\ watching
  /\ events < MaxEvents
  /\ fs[path].there \/ content.there
  /\ fs' = [fs EXCEPT ![path] = content]
  /\ cache' = cache \ {path}
  /\ dirty' = [c \in Collections |-> dirty[c] \/ Contains(path, c)]
  /\ passes' = Append(passes, Rebuild(events + 1, path))
  /\ events' = events + 1
  /\ event' = [kind |-> "content", path |-> path]
  /\ UNCHANGED <<config, resolved, loaded, watching, rejected, output, last>>

\* the 'all' listener, for the config file or one of its imports:
\* watcher.close(), return build({config, clean: false, watch: true})
ConfigEvent(cfg) ==
  /\ watching
  /\ events < MaxEvents
  /\ watching' = ~Closes
  /\ config' = cfg
  /\ cache' = {}
  /\ passes' = Append(passes, Restart(events + 1, cfg))
  /\ events' = events + 1
  /\ event' = [kind |-> "config", path |-> CfgPath]
  /\ UNCHANGED <<fs, resolved, loaded, rejected, output, last, dirty>>

\* the 'all' listener, for addDir / unlinkDir or no filename: return
IgnoredEvent ==
  /\ watching
  /\ events < MaxEvents
  /\ events' = events + 1
  /\ event' = [kind |-> "ignored", path |-> None]
  /\ UNCHANGED <<fs, config, resolved, loaded, cache, passes, watching, rejected, output,
                 last, dirty>>

\* the content tree the watched build starts from: p1 holds one valid record,
\* p2 an array of two
InitTrees == {[p \in Paths |-> IF p = "p1" THEN Single(1) ELSE Many(<<1, 1>>)]}

\* what the hooks do in the watched build
WatchHooks == {<<"absent", "absent">>, <<"throws", "absent">>}

\* the process starts with one call of build(options)
Start(trees, configs, wat) ==
  /\ fs \in trees
  /\ config \in configs
  /\ resolved = <<>>
  /\ loaded = <<>>
  /\ cache = {}
  /\ dirty = [c \in Collections |-> FALSE]
  /\ passes = <<StartPass(0, None, config, TRUE, wat)>>
  /\ watching = FALSE
  /\ rejected = FALSE
  /\ output = [c \in Collections |-> <<>>]
  /\ last = NoPass
  /\ events = 0
  /\ event = [kind |-> "none", path |-> None]

\* build({watch: true})
Init == Start(InitTrees, Configs, TRUE)

Next ==
  \/ \E i \in DOMAIN passes : \E c \in Collections : GlobStep(i, c)
  \/ \E i \in DOMAIN passes : \E c \in Collections : LoadStep(i, c)
  \/ \E i \in DOMAIN passes : \E h \in WatchHooks : Finish(i, h[1], h[2])
  \/ \E path \in Paths : \E content \in EventContents : FileEvent(path, content)
  \/ \E cfg \in Configs : ConfigEvent(cfg)
  \/ IgnoredEvent

Spec == Init /\ [][Next]_vars

\* ---------------------------------------------- one build, without watching
\* build({watch: false}) over every small content tree and configuration
BuildConfigs == [strict : BOOLEAN, single : SUBSET Collections]

InitBuild == Start([Paths -> Contents \cup {Absent}], BuildConfigs, FALSE)

NextBuild ==
  \/ \E i \in DOMAIN passes : \E c \in Collections : GlobStep(i, c)
  \/ \E i \in DOMAIN passes : \E c \in Collections : LoadStep(i, c)
  \/ \E i \in DOMAIN passes : \E prep \in PrepareOutcomes : \E comp \in CompleteOutcomes :
       Finish(i, prep, comp)

SpecBuild == InitBuild /\ [][NextBuild]_vars

\* --------------------------------- full builds, one after the other
\* build({watch: true}), restarted by events for the config file; the content
\* tree is left alone
NextFull ==
  \/ \E i \in DOMAIN passes : \E c \in Collections : GlobStep(i, c)
  \/ \E i \in DOMAIN passes : \E c \in Collections : LoadStep(i, c)
  \/ \E i \in DOMAIN passes : Finish(i, "absent", "absent")
  \/ \E cfg \in BuildConfigs : ConfigEvent(cfg)

\* the content trees of the restarted builds: p1 holds one record or is absent,
\* p2 is any content
FullTrees == {t \in [Paths -> Contents \cup {Absent}] : ~t["p1"].isArr}

InitFull == Start(FullTrees, BuildConfigs, TRUE)

SpecFull == InitFull /\ [][NextFull]_vars

\* ------------------------------------------- the markdown field transform
\* a setting that may be left out: "unset", or "true" / "false"
Flags == {"unset", "true", "false"}

\* a plugin list that may be left out
NoList == [set |-> FALSE, list |-> <<>>]
List(l) == [set |-> TRUE, list |-> l]

\* MarkdownOptions, as config.markdown holds them and as markdown(options) gets them
MarkdownOptions ==
  [remarkPlugins : {NoList, List(<<>>), List(<<"userRemark">>)},
   rehypePlugins : {NoList, List(<<>>), List(<<"userRehype">>)},
   gfm : Flags, removeComments : {"unset"}, copyLinkedFiles : Flags]

\* { gfm = true, ... } = { ...markdown, ...options }
Enabled(markdown, options, flag) ==
  (IF options[flag] # "unset" THEN options[flag] ELSE markdown[flag]) # "false"

\* array.push(...items) on the array `plugins` stands for
Push(plugins, cond, items) == IF cond THEN plugins \o items ELSE plugins

\* lines 36-41: the list handed to .use(remarkPlugins)
RemarkPlugins(markdown, options) ==
  Push(Push(Push(markdown.remarkPlugins.list,
                 Enabled(markdown, options, "gfm"), <<"remarkGfm">>),
            Enabled(markdown, options, "removeComments"), <<"remarkRemoveComments">>),
       options.remarkPlugins.set, options.remarkPlugins.list)

\* lines 36-43: the list handed to .use(rehypePlugins)
RehypePlugins(markdown, options) ==
  Push(Push(markdown.rehypePlugins.list,
            Enabled(markdown, options, "copyLinkedFiles"), <<"rehypeCopyLinkedFiles">>),
       options.rehypePlugins.set, options.rehypePlugins.list)

\* const { remarkPlugins = [], rehypePlugins = [] } = markdown: a list that
\* config.markdown holds is the array the pushes work on, a list left out is a
\* new array
SharedLists(markdown, remark, rehype) ==
  [markdown EXCEPT
     !.remarkPlugins = IF @.set THEN List(remark) ELSE @,
     !.rehypePlugins = IF @.set THEN List(rehype) ELSE @]

\* one call of the transform of markdown(options), made by
\* schema.safeParseAsync(item, {path, meta}) while a pass is loading
MarkdownStep(options) ==
  LET remark == RemarkPlugins(config.markdown, options)
      rehype == RehypePlugins(config.markdown, options)
  IN /\ passes # <<>>
     /\ events < MaxValidations
     /\ config' = [config EXCEPT !.markdown = SharedLists(@, remark, rehype)]
     /\ events' = events + 1
     /\ event' = [kind |-> "markdown", path |-> None, remark |-> remark, rehype |-> rehype]
     /\ UNCHANGED <<fs, resolved, loaded, cache, passes, watching, rejected, output, last,
                    dirty>>

\* the resolved configurations with a markdown section
MarkdownConfigs == [strict : {FALSE}, single : {{}}, markdown : MarkdownOptions]

InitMarkdown == Start(InitTrees, MarkdownConfigs, FALSE)

NextMarkdown == \E options \in MarkdownOptions : MarkdownStep(options)

SpecMarkdown == InitMarkdown /\ [][NextMarkdown]_vars

\* ================================================================ claims
\* every resolve() call the state knows: those in flight and the last settled
Known == {passes[i] : i \in DOMAIN passes} \cup (IF last.ran THEN {last.pass} ELSE {})

\* the call passes[i] is still in flight after the step, at position j
Same(i, j) == i \in DOMAIN passes /\ j \in DOMAIN passes' /\ passes[i].n = passes'[j].n

\* the step starts a resolve() call
Starts == Len(passes') = Len(passes) + 1 /\ events' = events + 1

\* the step settles the call passes[i]
Settles(i) == /\ Len(passes') = Len(passes) - 1
              /\ \A j \in DOMAIN passes' : passes'[j].n # passes[i].n
              /\ last'.pass.n = passes[i].n

\* the validated outputs of the files' records, in file and record order
IsDef(x) == x.def
Validated(files) == SelectSeq(Flatten(files), IsDef)

\* the last settled pass got as far as the aggregate
Aggregated == last.ran /\ last.err \in {None, "prepare", "complete"}

NothingInvoked == ~last.prepared /\ ~last.data /\ ~last.assets /\ ~last.completed

\* ---------------------------------------------------------------- C1
\* C1: in watch mode at most one resolution pass is in flight at any time: an
\* event delivered while a pass is running does not start a second pass before
\* the first has settled.
C1_OnePassInFlight == Len(passes) <= 1

\* ---------------------------------------------------------------- C2
\* a started pass takes the cached list of every collection that P does not match
C2_Start ==
  Starts => LET p == passes'[Len(passes')]
            IN \A c \in Collections :
                 (p.changed # None /\ ~Contains(p.changed, c) /\ c \in DOMAIN resolved)
                 => /\ p.br[c].skipped
                    /\ p.br[c].st = "done"
                    /\ p.br[c].files = resolved[c]
                    /\ resolved'[c] = resolved[c]

\* and keeps exactly that list until it settles
C2_Frame ==
  /\ \A i \in DOMAIN passes : \A j \in DOMAIN passes' : \A c \in Collections :
       (Same(i, j) /\ passes[i].br[c].skipped) => passes'[j].br[c] = passes[i].br[c]
  /\ \A i \in DOMAIN passes : \A c \in Collections :
       (Settles(i) /\ passes[i].br[c].skipped) => last'.pass.br[c] = passes[i].br[c]

\* without a glob, a load or a resolved.set for it
C2_Counters ==
  \A p \in Known : \A c \in Collections :
    IF p.changed # None /\ ~Contains(p.changed, c)
    THEN p.br[c].skipped /\ p.br[c].globs = 0 /\ p.br[c].loads = 0 /\ p.br[c].sets = 0
    ELSE ~p.br[c].skipped

\* C2: in a pass with changed path P, a collection whose patterns do not match P
\* and that has a resolution-cache entry gets exactly the cached list (same
\* objects, same order), is neither globbed nor loaded, and its cache entry is
\* not written by the pass.
C2_Incrementality == [](C2_Counters) /\ [][C2_Start /\ C2_Frame]_vars

\* a pass for p1 settled without error, having taken B's list from the cache
C2_Witness ==
  /\ last.ran /\ last.err = None /\ last.pass.changed = "p1"
  /\ last.pass.br["B"].skipped /\ last.pass.br["B"].files # <<>>
  /\ last.pass.br["A"].globs = 1

\* ---------------------------------------------------------------- C3
\* the collections P matches, and only they, are globbed and stored, and the
\* representation of P in their lists is one this pass constructed
C3_Exactly ==
  \A p \in Known : \A c \in Collections :
    p.changed # None =>
      /\ Contains(p.changed, c) <=> ~p.br[c].skipped
      /\ (p.br[c].st = "done" /\ ~p.br[c].skipped) => p.br[c].globs = 1 /\ p.br[c].sets = 1
      /\ p.br[c].st = "done" =>
           \A k \in 1..Len(p.br[c].files) :
              p.br[c].files[k].path = p.changed => p.br[c].files[k].id = <<p.n, c>>

\* after the glob, P awaits its construction and every other matched path that
\* has a cached representation holds that one
C3_Glob ==
  \A i \in DOMAIN passes : \A c \in Collections :
    (Same(i, i) /\ passes[i].changed # None
       /\ passes[i].br[c].st = "glob" /\ passes'[i].br[c].st = "load")
    => \A k \in 1..Len(passes'[i].br[c].files) :
         LET f == passes'[i].br[c].files[k]
         IN /\ f.path = passes[i].changed => f.id = NoId
            /\ (f.path # passes[i].changed /\ f.path \in DOMAIN loaded) => f = loaded[f.path]

\* the loads construct the awaited ones and leave the cached ones as they are
C3_Load ==
  \A i \in DOMAIN passes : \A c \in Collections :
    (Same(i, i) /\ passes[i].changed # None
       /\ passes[i].br[c].st = "load" /\ passes'[i].br[c].st = "done")
    => /\ Len(passes'[i].br[c].files) = Len(passes[i].br[c].files)
       /\ \A k \in 1..Len(passes[i].br[c].files) :
            LET f == passes[i].br[c].files[k]
                g == passes'[i].br[c].files[k]
            IN IF f.id = NoId THEN g.id = <<passes[i].n, c>> /\ g.path = f.path
               ELSE g = f

\* C3: the pass scoped to P globs and loads exactly the collections whose
\* patterns match P; there the File Representation of P is constructed anew,
\* never taken from the per-path cache, and every other matched path that has a
\* cached representation gets that same representation back.
C3_WatchInvalidation == [](C3_Exactly) /\ [][C3_Glob /\ C3_Load]_vars

\* the pass for p1 settled: A was rescanned, p1 is new, p2 is the cached one
C3_Witness ==
  /\ last.ran /\ last.err = None /\ last.pass.changed = "p1" /\ last.pass.n = 1
  /\ last.pass.br["B"].skipped /\ ~last.pass.br["A"].skipped
  /\ Len(last.pass.br["A"].files) = 2
  /\ last.pass.br["A"].files[1].id = <<1, "A">>
  /\ last.pass.br["A"].files[2].id[1] = 0

\* ---------------------------------------------------------------- C4
\* C4: whenever a pass reuses a collection's cached list, no event for a path
\* matching the collection's patterns was observed since the list was stored.
C4_TrustedReuse ==
  \A p \in Known : \A c \in Collections : p.br[c].skipped => p.br[c].trusted

\* ---------------------------------------------------------------- C5
\* the failure of a scoped pass leaves the watcher and the promises alone
C5_Caught ==
  \A i \in DOMAIN passes :
    (Settles(i) /\ ~passes[i].build /\ last'.err # None)
    => watching' = watching /\ rejected' = rejected

\* a content event starts a pass scoped to its path
C5_Rebuilds ==
  (events' = events + 1 /\ event'.kind = "content")
  => /\ Starts
     /\ passes'[Len(passes')].changed = event'.path
     /\ ~passes'[Len(passes')].build

C6_Restart ==
  (events' = events + 1 /\ event'.kind = "config")
  => /\ ~watching'
     /\ Starts
     /\ passes'[Len(passes')].changed = None
     /\ passes'[Len(passes')].build

\* no pass is scoped to a config file; a pass without a changed path skips no
\* collection and holds only representations it constructed itself
C6_Full ==
  \A p \in Known :
    /\ p.changed \notin ConfigImports
    /\ p.changed = None =>
         \A c \in Collections :
           /\ ~p.br[c].skipped
           /\ p.br[c].st = "done" => p.br[c].globs = 1
           /\ \A k \in 1..Len(p.br[c].files) : p.br[c].files[k].id \in {NoId, <<p.n, c>>}

\* C6: an event for the config file or one of its imports stops the watcher and
\* restarts the build; the restarted pass is a full pass (no changed path) that
\* globs every collection and constructs every File Representation anew, and no
\* scoped rebuild is run for that event.
C6_ConfigRestart == [](C6_Full) /\ [][C6_Restart]_vars

\* the restarted build settled without error and the watcher is back
C6_Witness ==
  /\ last.ran /\ last.err = None /\ last.pass.build /\ last.pass.n > 0
  /\ event.kind = "config" /\ watching
  /\ \A c \in Collections : last.pass.br[c].files # <<>>

\* ---------------------------------------------------------------- C7
\* C7, as claimed: with a diagnostic on any file, strict aborts the pass before
\* the hooks and the outputs; without strict the diagnostics are a warning and
\* data output is emitted with the surviving records.
C7_AsClaimed ==
  (last.ran /\ Report(last.pass)) =>
     IF last.pass.strict
     THEN last.err # None /\ NothingInvoked
     ELSE last.warned /\ last.data /\ output = [c \in Collections |-> Aggregate(last.pass, c)]

\* C7, amended: in a pass whose collection lists were all resolved and hold at
\* least one diagnostic, strict aborts the pass before the hooks and the
\* outputs; without strict the diagnostics are a warning and do not abort the
\* pass: data output is emitted exactly when no single collection has an empty
\* aggregate and the pre-output hook neither throws nor vetoes, and what is
\* emitted is the pass's aggregate, which holds no record that failed validation.
C7_StrictMode ==
  (last.ran /\ last.err # "read" /\ Report(last.pass)) =>
     IF last.pass.strict
     THEN last.err = "strict" /\ NothingInvoked
     ELSE /\ last.warned
          /\ last.err # "strict"
          /\ last.data <=> (/\ \A c \in last.pass.single : Aggregate(last.pass, c) # <<>>
                            /\ last.prep \notin {"false", "throws"})
          /\ last.data =>
               /\ output = [c \in Collections |-> Aggregate(last.pass, c)]
               /\ \A c \in Collections : \A k \in 1..Len(output[c]) : output[c][k].def

\* a strict build over a tree with a valid and an invalid record was aborted
C7_Witness ==
  /\ last.ran /\ last.pass.strict /\ last.err = "strict"
  /\ \E c \in Collections : \E k \in 1..Len(last.pass.br[c].files) :
       /\ last.pass.br[c].files[k].messages # <<>>
       /\ \E j \in 1..Len(last.pass.br[c].files[k].result) :
            last.pass.br[c].files[k].result[j].def

\* ---------------------------------------------------------------- C8
\* C8: a pass in which a collection declared single has no validated record (no
\* file matched, or every record failed validation) fails, writes no data output
\* and invokes no hook.
C8_EmptySingle ==
  last.ran =>
    \A c \in last.pass.single :
      Validated(last.pass.br[c].files) = <<>>
      => /\ last.err \in {"read", "strict", "nodata"}
         /\ ~last.data /\ ~last.prepared /\ ~last.completed

\* B is single and its pattern matched no file: the build failed with no data
C8_Witness ==
  /\ last.ran /\ last.err = "nodata" /\ "B" \in last.pass.single
  /\ ~fs["p2"].there /\ last.pass.br["B"].files = <<>> /\ last.pass.br["B"].globs = 1

\* ---------------------------------------------------------------- C9
\* the aggregate value is the first validated record
C9_FirstOfSeveral ==
  Aggregated =>
    \A c \in last.pass.single :
      Len(Validated(last.pass.br[c].files)) > 1
      => last.result[c] = <<Head(Validated(last.pass.br[c].files))>>

\* the pass does not fail for want of data when no single collection lacks a
\* validated record
C9_NoFailure ==
  last.ran =>
    \A c \in last.pass.single :
      (/\ Len(Validated(last.pass.br[c].files)) > 1
       /\ \A d \in last.pass.single \ {c} : Validated(last.pass.br[d].files) # <<>>)
      => last.err # "nodata"

\* C9: for a collection declared single whose files yield more than one
\* validated record the pass does not fail on its account, and the aggregate
\* value is the first validated record of the matched files in glob order.
C9_SingleSeveral == C9_FirstOfSeveral /\ C9_NoFailure

\* --------------------------------------------------------------- C10
\* the records of an array-shaped file that failed validation, by position
Failing(f) == {k \in 1..Len(f.result) : ~f.result[k].def}

\* a collection whose one file is array-shaped aggregates that file's validated
\* values, all of them and in input order
C10_Entries ==
  Aggregated =>
    \A c \in Collections \ last.pass.single :
      (Len(last.pass.br[c].files) = 1 /\ last.pass.br[c].files[1].isArr)
      => last.result[c] = Validated(last.pass.br[c].files)

\* one message per failing record, located at that record's index
C10_Messages ==
  last.ran =>
    \A c \in Collections : \A k \in 1..Len(last.pass.br[c].files) :
      LET f == last.pass.br[c].files[k]
      IN f.isArr =>
           /\ Len(f.messages) = Cardinality(Failing(f))
           /\ \A j \in 1..Len(f.messages) :
                f.messages[j] # <<>> /\ (f.messages[j][1] + 1) \in Failing(f)

\* C10: an array-shaped file with N records that pass validation and M that
\* fail it puts exactly its N validated values, in input order, into the
\* aggregate of its collection, and carries exactly M messages, each with a
\* source locator that starts with the index of a failing record.
C10_ArrayExpansion == C10_Entries /\ C10_Messages

\* --------------------------------------------------------------- C11
\* C11: two full resolution passes (no changed path) over the same unchanged
\* content tree with the same configuration end the same way and return the
\* same aggregate: the same collections, the same records, in the same order.
C11_Idempotence ==
  [][\A i \in DOMAIN passes :
       (/\ Settles(i) /\ last.ran /\ fs' = fs
        /\ last.pass.changed = None /\ passes[i].changed = None
        /\ last.pass.strict = passes[i].strict /\ last.pass.single = passes[i].single)
       => last'.err = last.err /\ last'.result = last.result]_vars

\* the second of two full passes under one configuration returned records
C11_Witness ==
  /\ last.ran /\ last.err = None /\ last.pass.n = 1 /\ last.pass.changed = None
  /\ event.kind = "config"
  /\ Len(last.result["A"]) > 1 /\ last.result["B"] # <<>>
  /\ output = last.result

\* --------------------------------------------------------------- C12
\* the pass was vetoed: no data output, but the assets are copied, the
\* post-output hook is invoked and the pass ends as it would have ended, with
\* the same aggregate, had the hook let the output through
C12_Vetoed ==
  (last.ran /\ last.prep = "false") =>
     /\ last.prepared /\ ~last.data
     /\ output = [c \in Collections |-> <<>>]
     /\ last.assets
     /\ last.comp # "absent" => last.completed
     /\ last.err = Outcome(last.pass, "true", last.comp).err
     /\ last.result = Outcome(last.pass, "true", last.comp).result
     /\ last.result = [c \in Collections |-> Aggregate(last.pass, c)]

\* the hook is absent or returned null / undefined: the data output is written
C12_Proceeds ==
  (last.ran /\ last.err \in {None, "complete"} /\ last.prep \in {"absent", "undefined"}) =>
     last.data /\ output = last.result

\* C12: a pre-output hook that returns a falsy value other than null/undefined
\* suppresses only the data output: the assets are still copied, the
\* post-output hook is still invoked with the aggregate and the pass returns
\* the aggregate it would have returned without the veto; with the hook absent
\* or returning null/undefined the data output is written.
C12_Veto == C12_Vetoed /\ C12_Proceeds

\* a vetoed build went on to its post-output hook and returned records
C12_Witness ==
  /\ last.ran /\ last.prep = "false" /\ last.err = None
  /\ ~last.data /\ last.assets /\ last.completed
  /\ last.result["A"] # <<>>

\* --------------------------------------------------------------- C13
\* C13: if the pre-output hook throws during a pass, the pass fails and no data
\* output is emitted for that pass; if the post-output hook throws, the pass
\* fails as well.
C13_HookFailure ==
  last.ran =>
    /\ last.prep = "throws" =>
         /\ last.err = "prepare" /\ rejected
         /\ ~last.data /\ output = [c \in Collections |-> <<>>]
    /\ last.comp = "throws" => last.err = "complete" /\ rejected

\* the pre-output hook of a build with records threw
C13_Witness ==
  /\ last.ran /\ last.prep = "throws" /\ last.prepared /\ last.err = "prepare"
  /\ ~last.data /\ rejected
  /\ last.result["A"] # <<>>

\* --------------------------------------------------------------- C14
\* C14: the result of an array-shaped File Representation is the ordered
\* sequence of the successful validation outputs only: a record that failed
\* validation leaves no entry in it, so its length is the number of records
\* that passed.
C14_NoPlaceholders ==
  \A p \in Known : \A c \in Collections : \A k \in 1..Len(p.br[c].files) :
    LET f == p.br[c].files[k]
    IN (f.id # NoId /\ f.isArr) =>
         /\ \A j \in 1..Len(f.result) : f.result[j].def
         /\ f.result = SelectSeq(Parsed(c, fs[f.path]), IsDef)

\* --------------------------------------------------------------- C15
\* C15: the aggregate of a collection that is not single is the concatenation,
\* in file-list order, of the files' result values in record order with only
\* the absent values removed: every record that passed validation is in it
\* whatever its validated value, and an empty sequence is not an error.
C15_Concatenation ==
  /\ Aggregated =>
       \A c \in Collections \ last.pass.single :
         last.result[c] = Validated(last.pass.br[c].files)
  /\ (last.ran /\ last.pass.single = {}) => last.err # "nodata"

\* --------------------------------------------------------------- C16
\* C16: validating a markdown field has no side effect on the resolved
\* configuration: after any number of validations the markdown remark and
\* rehype plugin lists of the configuration have the contents they had before
\* the first one.
C16_PluginListsKept ==
  [][event'.kind = "markdown" =>
       /\ config'.markdown.remarkPlugins = config.markdown.remarkPlugins
       /\ config'.markdown.rehypePlugins = config.markdown.rehypePlugins]_vars

\* --------------------------------------------------------------- C17
\* when the scoped pass that aborts in strict mode settles, the entry of every
\* collection it did not match is the list it found there when it started
C17_EntryKept ==
  \A i \in DOMAIN passes :
    (Settles(i) /\ passes[i].changed # None /\ last'.err = "strict")
    => \A c \in Collections :
         (~Contains(passes[i].changed, c) /\ passes[i].br[c].skipped)
         => resolved'[c] = passes[i].br[c].files

\* the next pass that succeeds returns, for the collections neither pass
\* matched, the aggregate of the lists the failed pass found when it started
C17_SameAggregate ==
  \A i \in DOMAIN passes :
    (/\ Settles(i) /\ passes[i].changed # None /\ last'.err = None
     /\ last.ran /\ last.pass.changed # None /\ last.err = "strict"
     /\ last.pass.single = passes[i].single)
    => \A c \in Collections :
         (/\ ~Contains(last.pass.changed, c) /\ last.pass.br[c].skipped
          /\ ~Contains(passes[i].changed, c))
         => last'.result[c] = Aggregate(last.pass, c)

\* C17: when a scoped pass for path P aborts on a strict-mode validation
\* failure, the resolution-cache entry of every collection whose patterns do
\* not match P is what it was before the pass, and a later successful pass
\* yields for those collections the aggregate values of before the failed pass.
C17_StrictAbortKeepsCache == [][C17_EntryKept /\ C17_SameAggregate]_vars

\* --------------------------------------------------------------- C18
\* C18: every File Representation held in the resolved list of collection C
\* was constructed by a load for C, so that its result was produced by
\* validating against C's schema, also when its path matches the patterns of
\* two collections and a scoped pass for another path re-scans one of them.
C18_SchemaOwnership ==
  \A c \in DOMAIN resolved : \A k \in 1..Len(resolved[c]) : resolved[c][k].id[2] = c

\* --------------------------------------------------------------- C19
\* C19: once every change event has been handled and no pass is in flight, the
\* resolution-cache entry of each collection holds, for the path that changed
\* last, a File Representation constructed after that change (by the pass the
\* event started), and none if the change removed the file: no change is lost
\* because a pass that started earlier stores its list later.
C19_EventualFreshness ==
  (passes = <<>> /\ event.kind = "content") =>
     \A c \in DOMAIN resolved :
       Contains(event.path, c) =>
         /\ fs[event.path].there <=>
              \E k \in 1..Len(resolved[c]) : resolved[c][k].path = event.path
         /\ \A k \in 1..Len(resolved[c]) :
              resolved[c][k].path = event.path => resolved[c][k].id[1] = events

\* --------------------------------------------------------------- C20
\* C20: after an event for a config file watching is re-established: when the
\* restarted build has settled and no pass is in flight, also after a failure
\* of that build, the failure has been caught by the listener and a watcher is
\* active.  (With no pass in flight and no watcher no step is left to take, so
\* a state that breaks this never gets a watcher again.)
C20_WatchReestablished ==
  (event.kind = "config" /\ passes = <<>>) => watching /\ ~rejected

====
